---------------------------- MODULE Spec2Model ----------------------------
(***************************************************************************)
(* State-machine model of the esp32FOTAGSM over-the-air update client      *)
(* (src/src/esp32fotagsm.cpp): the manifest check execHTTPcheck, the       *)
(* download engine execOTA (probe, sink reservation, chunked or whole-file *)
(* transfer, finalize) and forceUpdate.                                    *)
(*                                                                         *)
(* The transport client, the firmware sink (Update), the connectivity      *)
(* probe and the JSON parser are collaborators: every value they return is *)
(* an input drawn from a small set.  Byte counts are exact: the chunk size *)
(* is the program's constant and unsigned arithmetic keeps its 32 bits.    *)
(***************************************************************************)
EXTENDS Integers, Sequences, FiniteSets, TLC

(***************************************************************************)
(* Program constants                                                       *)
(***************************************************************************)
DOWNLOAD_CHUNK_SIZE == 16380

JSON_BUFFER_SIZE == 256

CHECK_DEFAULT_PORT == 80

HTTP_OK == 200

HTTP_PARTIAL == 206

(***************************************************************************)
(* uint and size_t are 32 bits wide.  A value of these types is written as *)
(* the integer of -2^31 .. 2^31-1 that has the same 32 bits, so 2^32-1 is  *)
(* written -1 and the conversion between int and uint keeps the number as  *)
(* it is.  + and - on this form are uint arithmetic modulo 2^32; the       *)
(* unsigned order is UintLess.                                             *)
(***************************************************************************)
UintLess(a, b) == IF (a < 0) = (b < 0) THEN a < b ELSE b < 0

UintLeq(a, b) == a = b \/ UintLess(a, b)

(***************************************************************************)
(* Bounds of the model                                                     *)
(***************************************************************************)
(* ranged GETs recorded per session *)
MaxGets == 3

(* connection attempts for the body counted per session (the count stays at
   this value once reached) *)
MaxConnects == 2

(* largest content length of the sessions followed to their end whatever the
   number of requests they take *)
MaxLiveLen == 3

CountConnect(n) == IF n < MaxConnects THEN n + 1 ELSE n

(***************************************************************************)
(* HTTP responses: a response is the sequence of its header lines, the     *)
(* status line first when there is one and the empty line last.  A line is *)
(* [name, value]; the status line has name "HTTP/1.1" and its code as      *)
(* value; Content-Length carries the integer its text converts to.         *)
(***************************************************************************)
StatusLine(code) == [name |-> "HTTP/1.1", value |-> code]

HeaderLine(n, v) == [name |-> n, value |-> v]

EmptyLine == [name |-> "", value |-> ""]

(* String::equalsIgnoreCase on the header names that occur *)
Lower(s) ==
    CASE s = "Content-Length" -> "content-length"
      [] s = "Content-Type"   -> "content-type"
      [] s = "Content-type"   -> "content-type"
      [] s = "Accept-Ranges"  -> "accept-ranges"
      [] s = "Connection"     -> "connection"
      [] s = "Content-Range"  -> "content-range"
      [] OTHER                -> s

EqualsIgnoreCase(a, b) == Lower(a) = Lower(b)

IsStatusLine(line) == line.name = "HTTP/1.1"


(***************************************************************************)
(* Header parsing of the probe (HEAD) response.  The loop reads one line   *)
(* per turn while the client reports bytes available; lines is the part of *)
(* the response that is available without interruption.                    *)
(***************************************************************************)
ProbeParseInit ==
    [gotHTTPStatus |-> FALSE, contentLength |-> 0, isValidContentType |-> FALSE,
     Accept_Ranges_bytes |-> FALSE, stopped |-> FALSE, ended |-> FALSE]

(* the else-if chain over the recognised headers *)
ProbeField(st, line) ==
    IF EqualsIgnoreCase(line.name, "Content-Length")
    THEN [st EXCEPT !.contentLength = line.value]
    ELSE IF EqualsIgnoreCase(line.name, "Content-type")
    THEN (IF line.value = "application/octet-stream"
          THEN [st EXCEPT !.isValidContentType = TRUE] ELSE st)
    ELSE IF EqualsIgnoreCase(line.name, "Accept-Ranges")
    THEN (IF line.value = "bytes"
          THEN [st EXCEPT !.Accept_Ranges_bytes = TRUE] ELSE st)
    ELSE st

RECURSIVE ProbeHeaders(_, _, _)
ProbeHeaders(lines, i, st) ==
    IF i > Len(lines) THEN st
    ELSE LET line == lines[i] IN
         IF line = EmptyLine THEN [st EXCEPT !.ended = TRUE]
         ELSE IF IsStatusLine(line) /\ line.value # HTTP_OK
         THEN [st EXCEPT !.stopped = TRUE]
         ELSE LET st1 == IF IsStatusLine(line)
                         THEN [st EXCEPT !.gotHTTPStatus = TRUE] ELSE st
              IN  IF ~st1.gotHTTPStatus
                  THEN ProbeHeaders(lines, i + 1, st1)
                  ELSE ProbeHeaders(lines, i + 1, ProbeField(st1, line))

(***************************************************************************)
(* Header parsing of a ranged (chunk) response: the status must be 206,    *)
(* the Connection header sets should_close_connection.                     *)
(***************************************************************************)
ChunkStatusRejected(line) == IsStatusLine(line) /\ line.value # HTTP_PARTIAL

ChunkField(st, line) ==
    IF EqualsIgnoreCase(line.name, "Connection")
    THEN [st EXCEPT !.should_close_connection = (line.value # "keep-alive")]
    ELSE st

RECURSIVE ChunkHeaders(_, _, _)
ChunkHeaders(lines, i, st) ==
    IF i > Len(lines) THEN st
    ELSE LET line == lines[i] IN
         IF line = EmptyLine THEN [st EXCEPT !.ended = TRUE]
         ELSE IF ChunkStatusRejected(line)
         THEN [st EXCEPT !.stopped = TRUE]
         ELSE ChunkHeaders(lines, i + 1, ChunkField(st, line))

(***************************************************************************)
(* Header parsing of the manifest response.                                *)
(***************************************************************************)
CheckParseInit ==
    [gotHTTPStatus |-> FALSE, contentLength |-> 0, isValidContentType |-> FALSE,
     stopped |-> FALSE, ended |-> FALSE]

CheckField(st, line) ==
    IF EqualsIgnoreCase(line.name, "Content-Length")
    THEN [st EXCEPT !.contentLength = line.value]
    ELSE IF EqualsIgnoreCase(line.name, "Content-type")
    THEN (IF line.value = "application/json"
          THEN [st EXCEPT !.isValidContentType = TRUE] ELSE st)
    ELSE st

RECURSIVE CheckHeaders(_, _, _)
CheckHeaders(lines, i, st) ==
    IF i > Len(lines) THEN st
    ELSE LET line == lines[i] IN
         IF line = EmptyLine THEN [st EXCEPT !.ended = TRUE]
         ELSE IF IsStatusLine(line) /\ line.value # HTTP_OK
         THEN [st EXCEPT !.stopped = TRUE]
         ELSE LET st1 == IF IsStatusLine(line)
                         THEN [st EXCEPT !.gotHTTPStatus = TRUE] ELSE st
              IN  IF ~st1.gotHTTPStatus
                  THEN CheckHeaders(lines, i + 1, st1)
                  ELSE CheckHeaders(lines, i + 1, CheckField(st1, line))

(***************************************************************************)
(* Chunk arithmetic of the ranged loop (uint)                              *)
(***************************************************************************)
(* variant: the span of the last chunk is not cut to the remaining bytes *)
AdjustLastByteUnclamped(first, last, remaining) ==
    IF UintLess(DOWNLOAD_CHUNK_SIZE, last - first)
    THEN first + DOWNLOAD_CHUNK_SIZE - 1 ELSE last

(* variant: the last chunk ends one byte late *)
AdjustLastByteOneLate(first, last, remaining) ==
    LET l1 == IF UintLess(remaining, DOWNLOAD_CHUNK_SIZE)
              THEN first + remaining ELSE last
    IN  IF UintLess(DOWNLOAD_CHUNK_SIZE, l1 - first)
        THEN first + DOWNLOAD_CHUNK_SIZE - 1 ELSE l1

(* variant: the span asked for is empty *)
AdjustLastByteEmptySpan(first, last, remaining) == first - 1

(* the two adjustments of chunk_last_byte made before a ranged GET *)
AdjustLastByte(first, last, remaining) ==
    LET l1 == IF UintLess(remaining, DOWNLOAD_CHUNK_SIZE)
              THEN first + remaining - 1 ELSE last
    IN  IF UintLess(DOWNLOAD_CHUNK_SIZE, l1 - first)
        THEN first + DOWNLOAD_CHUNK_SIZE - 1 ELSE l1

BytesToRead(first, last) == last - first + 1

(* chunk_last_byte after the payload read *)
LastAfterRead(first, last, toRead, readed) ==
    IF readed # toRead THEN first + readed - 1 ELSE last

(* variant: the cursor moves by the chunk size, not by what the sink took *)
AdvanceFirstByChunk(first, written) == first + DOWNLOAD_CHUNK_SIZE

(* the cursor, the end of span and the remaining count after the sink's write *)
AdvanceFirst(first, written) == first + written

AdvanceLast(last, written) == last + written

AdvanceRemaining(remaining, written) == remaining - written

AdvanceTotal(total, written) == total + written

(* numChunks as computed before the loop *)
NumChunks(len) ==
    (len \div DOWNLOAD_CHUNK_SIZE)
        + (IF len % DOWNLOAD_CHUNK_SIZE # 0 THEN 1 ELSE 0)

(***************************************************************************)
(* Inputs: what the server, the transport and the sink may answer          *)
(***************************************************************************)
(* Content-Length values of a probe response (toInt of the header text) *)
ProbeLengths == {-1, 0, 5000, 16381, 40000}

ProbeResponse(code, len, ctype, ranges) ==
    << StatusLine(code),
       HeaderLine("Content-Length", len),
       HeaderLine("Content-Type", ctype),
       HeaderLine("Accept-Ranges", ranges),
       EmptyLine >>

ProbeResponses ==
    { ProbeResponse(code, len, ctype, ranges) :
        code \in {HTTP_OK, 404}, len \in ProbeLengths,
        ctype \in {"application/octet-stream", "text/html"},
        ranges \in {"bytes", "none"} }

ChunkResponse(code, conn) ==
    << StatusLine(code),
       HeaderLine("Content-Range", "bytes"),
       HeaderLine("Connection", conn),
       EmptyLine >>

ChunkResponses ==
    { ChunkResponse(code, conn) :
        code \in {HTTP_PARTIAL, HTTP_OK, 404}, conn \in {"keep-alive", "close"} }

(* the numbers of lines the header loop can read before the client reports
   no byte available: the whole response, or a first burst of it *)
Bursts(resp) == {Len(resp), Len(resp) - 2}

(* Client::readBytes returns 0..n bytes; a stopped client yields none *)
ReadChoices(n, open) ==
    IF open THEN {k \in {0, 1, n} : 0 <= k /\ UintLeq(k, n)} ELSE {0}

(* Update.write returns 0..len *)
WriteChoices(len) == {k \in {0, len - 1, len} : 0 <= k /\ k <= len}

(* Update.writeStream returns the number of bytes written *)
StreamChoices(len) == {0, 1, len}

(* firmware descriptors a caller may force: host, port, bin, checksum *)
ForceDescriptors ==
    { [host |-> "force.example", port |-> 8080, bin |-> "/force.bin",
       checksum |-> "0f343b0931126a20f133d67c2b018a3b"] }

(* the value the _port member holds before it is first assigned *)
IndeterminatePorts == {0, 65535}

(***************************************************************************)
(* State                                                                   *)
(***************************************************************************)
VARIABLES
    (* members of the object *)
    _host, _port, _bin, _checksum,
    _connectionCheckFunction,   \* TRUE: a connectivity probe is set (non-NULL)
    _networkSemaphore,          \* TRUE: a network semaphore is set (non-NULL)
    (* collaborators *)
    sem,                        \* holder of the network semaphore: "free", "engine", "other"
    connected,                  \* the client holds an open connection
    (* control *)
    pc,                         \* position in the running public operation
    op,                         \* public operation in progress or last finished
    ret,                        \* value returned to the caller: "none", "true", "false"
    (* locals of execOTA *)
    contentLength, isValidContentType, Accept_Ranges_bytes,
    total_written_bytes, last_written_bytes,
    chunk_first_byte, chunk_last_byte, remainig_bytes, should_close_connection,
    bytes_to_read, readed_bytes,
    (* observations of the session: requests, sink calls, restart *)
    obs

objVars == << _host, _port, _bin, _checksum, _connectionCheckFunction, _networkSemaphore >>

probeVars == << contentLength, isValidContentType, Accept_Ranges_bytes >>

chunkVars == << chunk_first_byte, chunk_last_byte, remainig_bytes,
                should_close_connection, bytes_to_read, readed_bytes >>

writeVars == << total_written_bytes, last_written_bytes >>

vars == << objVars, sem, connected, pc, op, ret, probeVars, chunkVars, writeVars, obs >>

NoDescriptor == [host |-> "", port |-> 0, bin |-> "", checksum |-> ""]

NoManifest == [type |-> "", version |-> 0, host |-> "", port |-> 0, bin |-> "",
               checksum |-> ""]

NoManifestResponse ==
    [gotHTTPStatus |-> FALSE, contentLength |-> 0, isValidContentType |-> FALSE,
     stopped |-> FALSE, ended |-> FALSE]

(* observations at the start of a public operation *)
ObsInit ==
    [ heads         |-> 0,        \* HEAD requests printed
      rangedGets    |-> 0,        \* ranged GETs printed
      wholeGets     |-> 0,        \* whole-file GETs printed
      manifestGets  |-> 0,        \* manifest GETs printed
      bodyConnects  |-> 0,        \* connect() calls made after the probe
      getFirst      |-> 0,        \* Range of the last ranged GET
      getLast       |-> 0,
      allFull       |-> TRUE,     \* every ranged GET so far was answered, read and written in full
      rejected      |-> FALSE,    \* a ranged response carried a status other than 206
      getsAfterReject |-> 0,      \* ranged GETs printed after such a response
      shortIo       |-> FALSE,    \* a read or a sink write came up short
      begin         |-> "none",   \* Update.begin: "none", "ok", "refused"
      md5           |-> FALSE,    \* Update.setMD5 called
      wrote         |-> FALSE,    \* Update.write or Update.writeStream called
      finalize      |-> "none",   \* Update.end: "none", "ok", "failed"
      finished      |-> "none",   \* Update.isFinished: "none", "yes", "no"
      restart       |-> FALSE,    \* ESP.restart called
      probeTarget   |-> NoDescriptor, \* host, port and path of the probe
      forced        |-> NoDescriptor, \* arguments of forceUpdate
      compared      |-> FALSE,    \* the manifest identity was compared
      response      |-> NoManifestResponse, \* what the manifest headers gave
      bufRead       |-> 0,        \* bytes asked of readBytes into JSONMessage
      parsed        |-> "none",   \* deserializeJson: "none", "ok", "failed"
      manifest      |-> NoManifest, \* the parsed manifest
      outcome       |-> "none",   \* the exit path taken
      ioUnguarded   |-> FALSE,    \* a transport call was made without the semaphore held
      probeNon200   |-> FALSE,    \* the probe response carried a status other than 200
      probeEnded    |-> FALSE,    \* the probe's header loop read the empty line
      probeRanges   |-> FALSE,    \* the probe response carried Accept-Ranges: bytes
      wholeStatus   |-> 0,        \* status of the response to the whole-file GET
      headerAsPayload |-> FALSE,  \* a payload read began before the end of the headers
      entry         |-> NoDescriptor, \* the descriptor at entry of execHTTPcheck
      useDeviceID   |-> FALSE,    \* the useDeviceID member at entry of execHTTPcheck
      useURL        |-> "",       \* the local useURL of execHTTPcheck
      getPath       |-> "" ]      \* the path printed in the manifest GET

Init ==
    /\ _host = "" /\ _bin = "" /\ _checksum = ""
    /\ _port \in IndeterminatePorts
    /\ _connectionCheckFunction \in BOOLEAN
    /\ _networkSemaphore \in BOOLEAN
    /\ sem = "free"
    /\ connected = FALSE
    /\ pc = "idle" /\ op = "none" /\ ret = "none"
    /\ contentLength = 0 /\ isValidContentType = FALSE /\ Accept_Ranges_bytes = FALSE
    /\ total_written_bytes = 0 /\ last_written_bytes = 0
    /\ chunk_first_byte = 0 /\ chunk_last_byte = 0 /\ remainig_bytes = 0
    /\ should_close_connection = FALSE
    /\ bytes_to_read = 0 /\ readed_bytes = 0
    /\ obs = ObsInit

(***************************************************************************)
(* The Link Guard                                                          *)
(***************************************************************************)
(* xSemaphoreTake(portMAX_DELAY) returns once the semaphore is free *)
CanTake == ~_networkSemaphore \/ sem = "free"

(* variant: the take is skipped *)
SemaphoreTakeNothing(s) == s

SemaphoreTake(s) == IF _networkSemaphore THEN "engine" ELSE s

(* variant: the give is skipped *)
SemaphoreGiveNothing(s) == s

SemaphoreGive(s) == IF _networkSemaphore THEN "free" ELSE s

(* the transport calls of an exchange are made with the semaphore in state
   s: it is held when the engine took it, or when none is configured *)
GuardHeld(s) == ~_networkSemaphore \/ s = "engine"

Transport(o, s) == [o EXCEPT !.ioUnguarded = @ \/ ~GuardHeld(s)]

(* variant: without a probe the link may be taken as down *)
LinkReportsWithoutProbe == BOOLEAN

(* _checkConnection: the values the probe may report *)
LinkReports == IF _connectionCheckFunction THEN BOOLEAN ELSE {TRUE}

(* locals of execOTA at entry *)
EnterExecOTA ==
    /\ contentLength' = 0 /\ isValidContentType' = FALSE /\ Accept_Ranges_bytes' = FALSE
    /\ total_written_bytes' = 0 /\ last_written_bytes' = 0
    /\ chunk_first_byte' = 0 /\ chunk_last_byte' = 0 /\ remainig_bytes' = 0
    /\ should_close_connection' = FALSE
    /\ bytes_to_read' = 0 /\ readed_bytes' = 0
    /\ ret' = "none"
    /\ pc' = "probe_connect"

(* return from execOTA *)
ReturnOTA(value, how, o) ==
    /\ ret' = value
    /\ pc' = "idle"
    /\ obs' = [o EXCEPT !.outcome = how]

(***************************************************************************)
(* execOTA: probing                                                        *)
(***************************************************************************)
(* the caller invokes execOTA with the stored descriptor *)
ExecOTA ==
    /\ pc = "idle"
    /\ op' = "execOTA"
    /\ obs' = ObsInit
    /\ EnterExecOTA
    /\ UNCHANGED << objVars, sem, connected >>

(* take the semaphore, connect, print the HEAD request; a refused connect
   gives the semaphore back and returns false *)
ProbeConnect ==
    /\ pc = "probe_connect"
    /\ CanTake
    /\ \E ok \in BOOLEAN :
         IF ok
         THEN /\ sem' = SemaphoreTake(sem)
              /\ connected' = TRUE
              /\ obs' = [Transport(obs, SemaphoreTake(sem)) EXCEPT
                                    !.heads = 1,
                                    !.probeTarget = [host |-> _host, port |-> _port,
                                                     bin |-> _bin, checksum |-> _checksum]]
              /\ pc' = "probe_wait"
              /\ UNCHANGED ret
         ELSE /\ sem' = SemaphoreGive(SemaphoreTake(sem))
              /\ connected' = FALSE
              /\ ReturnOTA("false", "probe_connect_failed",
                           Transport(obs, SemaphoreTake(sem)))
    /\ UNCHANGED << objVars, op, probeVars, chunkVars, writeVars >>

(* no byte within CLIENT_TIMEOUT_MS: stop, give, return false *)
ProbeTimeout ==
    /\ pc = "probe_wait"
    /\ connected' = FALSE
    /\ sem' = SemaphoreGive(sem)
    /\ ReturnOTA("false", "probe_timeout", Transport(obs, sem))
    /\ UNCHANGED << objVars, op, probeVars, chunkVars, writeVars >>

(* variant: the content type of the probe response is not looked at *)
ProbeAcceptedAnyType(len, valid) == len # 0

(* the response has a header of this name (in any case) with this value *)
Carries(resp, name, value) ==
    \E i \in 1 .. Len(resp) :
        EqualsIgnoreCase(resp[i].name, name) /\ resp[i].value = value

(* the session goes on when the probe gave a length and the binary type *)
ProbeAccepted(len, valid) == len # 0 /\ valid

(* the probe's header loop may also be left right after the status line, so
   that no header was read at all *)
ProbeBursts(resp) == Bursts(resp) \cup {1}

(* read the headers, stop the client, give the semaphore, then check the
   length and the content type *)
ProbeRead ==
    /\ pc = "probe_wait"
    /\ \E resp \in ProbeResponses : \E n \in ProbeBursts(resp) :
         LET st == ProbeHeaders(SubSeq(resp, 1, n), 1, ProbeParseInit)
             o1 == [Transport(obs, sem) EXCEPT
                      !.probeNon200 = st.stopped,
                      !.probeEnded = st.ended,
                      !.probeRanges = Carries(resp, "Accept-Ranges", "bytes")]
         IN
         /\ contentLength' = st.contentLength
         /\ isValidContentType' = st.isValidContentType
         /\ Accept_Ranges_bytes' = st.Accept_Ranges_bytes
         /\ connected' = FALSE
         /\ sem' = SemaphoreGive(sem)
         /\ IF ProbeAccepted(st.contentLength, st.isValidContentType)
            THEN /\ pc' = "begin"
                 /\ obs' = o1
                 /\ UNCHANGED ret
            ELSE ReturnOTA("false", "probe_rejected", o1)
    /\ UNCHANGED << objVars, op, chunkVars, writeVars >>

(***************************************************************************)
(* execOTA: reserving the sink and choosing the transfer                   *)
(***************************************************************************)
(* variant: the whole file is asked for whatever the probe said *)
TransferForWholeFile(ranges) == "whole_connect"

(* the transfer chosen once the sink accepted the session *)
TransferFor(ranges) == IF ranges THEN "chunk_loop" ELSE "whole_connect"

(* variant: the answer of Update.begin is ignored *)
AfterBeginUnchecked(accepted, ranges) == TransferFor(ranges)

(* position after Update.begin answered *)
AfterBegin(accepted, ranges) == IF accepted THEN TransferFor(ranges) ELSE "idle"

(* variant: the digest is never handed to the sink *)
DigestRegisteredNever(accepted, checksum) == FALSE

(* Update.setMD5 is called once the sink accepted, for a checksum with text *)
DigestRegistered(accepted, checksum) == accepted /\ checksum # ""

SinkBegin ==
    /\ pc = "begin"
    /\ \E accepted \in BOOLEAN :
         LET next == AfterBegin(accepted, Accept_Ranges_bytes)
             o1 == [obs EXCEPT !.begin = IF accepted THEN "ok" ELSE "refused",
                               !.md5 = DigestRegistered(accepted, _checksum)]
         IN
         IF next = "idle"
         THEN /\ ReturnOTA("false", "sink_refused", o1)
              /\ UNCHANGED chunkVars
         ELSE /\ pc' = next
              /\ obs' = o1
              /\ UNCHANGED ret
              /\ IF next = "chunk_loop"
                 THEN /\ chunk_first_byte' = 0
                      /\ chunk_last_byte' = DOWNLOAD_CHUNK_SIZE - 1
                      /\ remainig_bytes' = contentLength
                      /\ should_close_connection' = FALSE
                      /\ UNCHANGED << bytes_to_read, readed_bytes >>
                 ELSE UNCHANGED chunkVars
    /\ UNCHANGED << objVars, sem, connected, op, probeVars, writeVars >>

(***************************************************************************)
(* execOTA: chunked transfer                                               *)
(***************************************************************************)
(* the probe reports the link down: sleep 5 s and poll again, before the
   semaphore is taken *)
ChunkLinkDown ==
    /\ pc = "chunk_loop"
    /\ remainig_bytes # 0
    /\ FALSE \in LinkReports
    /\ pc' = "link_backoff"
    /\ UNCHANGED << objVars, sem, connected, op, ret, probeVars, chunkVars, writeVars, obs >>

(* what connected() may answer: an open connection may have been dropped *)
ConnectedReports == IF connected THEN BOOLEAN ELSE {FALSE}

(* the client is not connected: connect again, give the semaphore; a
   refused connect sleeps 5 s before the next turn *)
ChunkReconnect ==
    /\ pc = "chunk_loop"
    /\ remainig_bytes # 0
    /\ TRUE \in LinkReports
    /\ CanTake
    /\ FALSE \in ConnectedReports
    /\ \E ok \in BOOLEAN :
         /\ connected' = ok
         /\ pc' = IF ok THEN "chunk_loop" ELSE "backoff"
    /\ sem' = SemaphoreGive(SemaphoreTake(sem))
    /\ obs' = [Transport(obs, SemaphoreTake(sem)) EXCEPT
                  !.bodyConnects = CountConnect(@)]
    /\ UNCHANGED << objVars, op, ret, probeVars, chunkVars, writeVars >>

(* the client is connected: fix the end of the span and print the ranged
   GET; gets is the number of ranged GETs recorded once this one is out *)
ChunkRequestCounted(gets) ==
    /\ pc = "chunk_loop"
    /\ remainig_bytes # 0
    /\ TRUE \in LinkReports
    /\ CanTake
    /\ TRUE \in ConnectedReports
    /\ sem' = SemaphoreTake(sem)
    /\ chunk_last_byte' = AdjustLastByte(chunk_first_byte, chunk_last_byte, remainig_bytes)
    /\ obs' = [Transport(obs, SemaphoreTake(sem)) EXCEPT
                          !.rangedGets = gets,
                          !.getFirst = chunk_first_byte,
                          !.getLast = chunk_last_byte',
                          !.getsAfterReject = IF obs.rejected THEN 1 ELSE @]
    /\ pc' = "chunk_wait"
    /\ UNCHANGED << objVars, connected, op, ret, probeVars, chunk_first_byte,
                    remainig_bytes, should_close_connection, bytes_to_read,
                    readed_bytes, writeVars >>

(* the ranged GET of a session followed for MaxGets requests *)
ChunkRequest ==
    /\ obs.rangedGets < MaxGets
    /\ ChunkRequestCounted(obs.rangedGets + 1)

(* variant: a first-byte timeout of a ranged GET ends the session *)
AfterChunkTimeoutFails == "idle"

(* position after no byte arrived for a ranged GET: the 5 s sleep *)
AfterChunkTimeout == "backoff"

(* no byte within CLIENT_TIMEOUT_MS: stop, give, sleep 5 s, next turn *)
ChunkTimeout ==
    /\ pc = "chunk_wait"
    /\ connected' = FALSE
    /\ sem' = SemaphoreGive(sem)
    /\ IF AfterChunkTimeout = "idle"
       THEN ReturnOTA("false", "chunk_timeout",
                      [Transport(obs, sem) EXCEPT !.allFull = FALSE])
       ELSE /\ pc' = AfterChunkTimeout
            /\ obs' = [Transport(obs, sem) EXCEPT !.allFull = FALSE]
            /\ UNCHANGED ret
    /\ UNCHANGED << objVars, op, probeVars, chunkVars, writeVars >>

(* the header loop was left by available() = 0 before the empty line, and
   the read that follows took bytes: they begin with the rest of the headers *)
PayloadBeforeEnd(ended, stopped, readed) == ~ended /\ ~stopped /\ readed # 0

(* read the headers of the ranged response, read the payload, write it to
   the sink, advance the cursor, close if the server closes, give.  A status
   other than 206 stops the client and leaves the header loop; the payload
   read and the rest of the turn follow all the same *)
ChunkExchange ==
    /\ pc = "chunk_wait"
    /\ \E resp \in ChunkResponses : \E n \in Bursts(resp) :
         LET st == ChunkHeaders(SubSeq(resp, 1, n), 1,
                       [should_close_connection |-> should_close_connection,
                        stopped |-> FALSE, ended |-> FALSE])
             toRead == BytesToRead(chunk_first_byte, chunk_last_byte)
         IN
         /\ \E readed \in ReadChoices(toRead, ~st.stopped) :
            \E written \in WriteChoices(readed) :
              /\ bytes_to_read' = toRead
              /\ readed_bytes' = readed
              /\ last_written_bytes' = written
              /\ total_written_bytes' = AdvanceTotal(total_written_bytes, written)
              /\ chunk_first_byte' = AdvanceFirst(chunk_first_byte, written)
              /\ chunk_last_byte' =
                     AdvanceLast(LastAfterRead(chunk_first_byte, chunk_last_byte,
                                               toRead, readed), written)
              /\ remainig_bytes' = AdvanceRemaining(remainig_bytes, written)
              /\ should_close_connection' = st.should_close_connection
              /\ connected' = IF st.stopped \/ st.should_close_connection
                              THEN FALSE ELSE connected
              /\ obs' = [Transport(obs, sem) EXCEPT
                           !.wrote = TRUE,
                           !.headerAsPayload =
                               @ \/ PayloadBeforeEnd(st.ended, st.stopped, readed),
                           !.rejected = @ \/ st.stopped,
                           !.shortIo = @ \/ readed # toRead \/ written # readed,
                           !.allFull = @ /\ readed = toRead /\ written = readed]
    /\ sem' = SemaphoreGive(sem)
    /\ pc' = "yield"
    /\ UNCHANGED << objVars, op, ret, probeVars >>

(* delay(5000) after a link outage or a failure, delay(250) after an
   exchange; then the next turn of the loop *)
Backoff ==
    /\ pc \in {"link_backoff", "backoff", "yield"}
    /\ pc' = "chunk_loop"
    /\ UNCHANGED << objVars, sem, connected, op, ret, probeVars, chunkVars, writeVars, obs >>

(* remainig_bytes is 0: leave the loop; the semaphore is given after the
   transfer branch *)
ChunkDone ==
    /\ pc = "chunk_loop"
    /\ remainig_bytes = 0
    /\ sem' = SemaphoreGive(sem)
    /\ pc' = "finalize"
    /\ UNCHANGED << objVars, connected, op, ret, probeVars, chunkVars, writeVars, obs >>

(***************************************************************************)
(* execOTA: whole-file transfer                                            *)
(***************************************************************************)
(* variant: a refused connect for the whole file is tried again *)
AfterWholeConnectFailedRetry == "whole_connect"

(* position after the connect for the whole file was refused *)
AfterWholeConnectFailed == "idle"

(* position after no byte arrived for the whole-file GET *)
AfterWholeTimeout == "idle"

(* take the semaphore, connect, print the GET for the whole file *)
WholeConnect ==
    /\ pc = "whole_connect"
    /\ CanTake
    /\ \E ok \in BOOLEAN :
         LET o1 == [Transport(obs, SemaphoreTake(sem)) EXCEPT
                      !.bodyConnects = CountConnect(@)] IN
         IF ok
         THEN /\ sem' = SemaphoreTake(sem)
              /\ connected' = TRUE
              /\ obs' = [o1 EXCEPT !.wholeGets = @ + 1]
              /\ pc' = "whole_wait"
              /\ UNCHANGED ret
         ELSE /\ sem' = SemaphoreGive(SemaphoreTake(sem))
              /\ connected' = FALSE
              /\ IF AfterWholeConnectFailed = "idle"
                 THEN ReturnOTA("false", "whole_connect_failed", o1)
                 ELSE /\ pc' = AfterWholeConnectFailed
                      /\ obs' = o1
                      /\ UNCHANGED ret
    /\ UNCHANGED << objVars, op, probeVars, chunkVars, writeVars >>

(* no byte within CLIENT_TIMEOUT_MS: stop, give, return false *)
WholeTimeout ==
    /\ pc = "whole_wait"
    /\ connected' = FALSE
    /\ sem' = SemaphoreGive(sem)
    /\ IF AfterWholeTimeout = "idle"
       THEN ReturnOTA("false", "whole_timeout", Transport(obs, sem))
       ELSE /\ pc' = AfterWholeTimeout
            /\ obs' = Transport(obs, sem)
            /\ UNCHANGED ret
    /\ UNCHANGED << objVars, op, probeVars, chunkVars, writeVars >>

(* responses to the GET for the whole file *)
WholeResponse(code) ==
    << StatusLine(code),
       HeaderLine("Content-Type", "application/octet-stream"),
       HeaderLine("Connection", "close"),
       EmptyLine >>

WholeResponses == { WholeResponse(code) : code \in {HTTP_OK, 404} }

(* the header loop of the whole-file branch: lines are read and dropped
   until the empty one; no line is looked at *)
RECURSIVE WholeHeaders(_, _, _)
WholeHeaders(lines, i, st) ==
    IF i > Len(lines) THEN st
    ELSE IF lines[i] = EmptyLine THEN [st EXCEPT !.ended = TRUE]
    ELSE WholeHeaders(lines, i + 1, st)

(* skip the headers, stream what the client still holds into the sink, give
   the semaphore *)
WholeStream ==
    /\ pc = "whole_wait"
    /\ \E resp \in WholeResponses : \E n \in Bursts(resp) :
       \E written \in StreamChoices(contentLength) :
         LET st == WholeHeaders(SubSeq(resp, 1, n), 1,
                                [stopped |-> FALSE, ended |-> FALSE])
         IN
         /\ total_written_bytes' = written
         /\ obs' = [Transport(obs, sem) EXCEPT
                      !.wrote = TRUE,
                      !.wholeStatus = resp[1].value,
                      !.headerAsPayload =
                          PayloadBeforeEnd(st.ended, st.stopped, written)]
    /\ sem' = SemaphoreGive(sem)
    /\ pc' = "finalize"
    /\ UNCHANGED << objVars, connected, op, ret, probeVars, chunkVars, last_written_bytes >>

(***************************************************************************)
(* execOTA: finalize                                                       *)
(***************************************************************************)
(* variant: the restart does not wait for Update.isFinished() *)
RestartRequestedOnEnd(endOk, isFinished) == endOk

(* ESP.restart() is called when Update.end() and Update.isFinished() hold *)
RestartRequested(endOk, isFinished) == endOk /\ isFinished

(* the function ends without a return statement on the paths through
   Update.end(): the caller reads an indeterminate value *)
ValuesWithoutReturn == {"true", "false"}

Finalize ==
    /\ pc = "finalize"
    /\ \E endOk \in BOOLEAN : \E isFinished \in BOOLEAN :
         LET o1 == [obs EXCEPT
                      !.finalize = IF endOk THEN "ok" ELSE "failed",
                      !.finished = IF ~endOk THEN "none"
                                   ELSE IF isFinished THEN "yes" ELSE "no"]
         IN
         IF RestartRequested(endOk, isFinished)
         THEN /\ obs' = [o1 EXCEPT !.restart = TRUE, !.outcome = "restart"]
              /\ pc' = "restarted"
              /\ UNCHANGED ret
         ELSE \E v \in ValuesWithoutReturn :
                ReturnOTA(v, IF endOk THEN "not_finished" ELSE "finalize_failed", o1)
    /\ UNCHANGED << objVars, sem, connected, op, probeVars, chunkVars, writeVars >>

(***************************************************************************)
(* forceUpdate                                                             *)
(***************************************************************************)
(* variant: the checksum argument is not stored *)
ForcedDescriptorWithoutChecksum(firmwareHost, firmwarePort, firmwarePath, checksum) ==
    [host |-> firmwareHost, port |-> firmwarePort, bin |-> firmwarePath,
     checksum |-> ""]

(* the descriptor stored from the four arguments *)
ForcedDescriptor(firmwareHost, firmwarePort, firmwarePath, checksum) ==
    [host |-> firmwareHost, port |-> firmwarePort, bin |-> firmwarePath,
     checksum |-> checksum]

ForceUpdate ==
    /\ pc = "idle"
    /\ \E a \in ForceDescriptors :
         LET d == ForcedDescriptor(a.host, a.port, a.bin, a.checksum) IN
         /\ _host' = d.host /\ _port' = d.port /\ _bin' = d.bin
         /\ _checksum' = d.checksum
         /\ obs' = [ObsInit EXCEPT !.forced = a]
    /\ op' = "forceUpdate"
    /\ EnterExecOTA
    /\ UNCHANGED << _connectionCheckFunction, _networkSemaphore, sem, connected >>

(***************************************************************************)
(* execHTTPcheck                                                           *)
(***************************************************************************)
(* the arguments the application constructed the object with *)
ConstructorArgs == [firwmareType |-> "esp32-fota-gsm", firwmareVersion |-> 2]

(* the constructor stores neither argument: _firwmareType stays the empty
   String it is default-constructed to, _firwmareVersion is never assigned *)
FirwmareTypeMember == ""

FirwmareVersionValues == {0, 2, 3}

(* Content-Length values of a manifest response *)
ManifestLengths == {-1, 0, 100, JSON_BUFFER_SIZE, JSON_BUFFER_SIZE + 1}

ManifestResponse(code, len, ctype) ==
    << StatusLine(code),
       HeaderLine("Content-Length", len),
       HeaderLine("Content-Type", ctype),
       HeaderLine("Connection", "close"),
       EmptyLine >>

ManifestResponses ==
    { ManifestResponse(code, len, ctype) :
        code \in {HTTP_OK, 404}, len \in ManifestLengths,
        ctype \in {"application/json", "text/html"} }

(* manifests a server may publish *)
Manifests ==
    { [type |-> t, version |-> v, host |-> "fw.example", port |-> 8000,
       bin |-> "/fw.bin", checksum |-> c] :
        t \in {ConstructorArgs.firwmareType, "other", ""},
        v \in {ConstructorArgs.firwmareVersion, ConstructorArgs.firwmareVersion + 1},
        c \in {""} }

(* variant: the limit is one too high *)
CheckOversizeOneOff(len) == len > JSON_BUFFER_SIZE + 1

(* the declared length does not fit char JSONMessage[256] *)
CheckOversize(len) == len > JSON_BUFFER_SIZE

(* the body is read and parsed *)
CheckAccepted(len, valid) == len # 0 /\ valid

(* the comparison of the manifest identity with the members *)
UpdateAvailable(pltype, plversion, fwType, fwVersion) ==
    pltype = fwType /\ plversion > fwVersion

ReturnCheck(value, how, o) ==
    /\ ret' = value
    /\ pc' = "idle"
    /\ obs' = [o EXCEPT !.outcome = how]

(* the manifest path the object is configured with *)
checkRESOURCE == "/fota.json"

(* the text _getDeviceID gives: the efuse MAC in decimal *)
DeviceID == "8796"

(* the values of the useDeviceID member: false since construction, or set
   by the application before the call *)
UseDeviceIDValues == BOOLEAN

(* the local useURL *)
UseURL(useDeviceID) ==
    IF useDeviceID THEN checkRESOURCE \o "?id=" \o DeviceID ELSE checkRESOURCE

(* the path printed after "GET " *)
GetPath(useURL) == checkRESOURCE

(* entry: useURL is built, _port is set to 80 *)
ExecHTTPcheck ==
    /\ pc = "idle"
    /\ op' = "execHTTPcheck"
    /\ _port' = CHECK_DEFAULT_PORT
    /\ \E useDeviceID \in UseDeviceIDValues :
         obs' = [ObsInit EXCEPT !.entry = [host |-> _host, port |-> _port,
                                          bin |-> _bin, checksum |-> _checksum],
                                !.useDeviceID = useDeviceID,
                                !.useURL = UseURL(useDeviceID)]
    /\ ret' = "none"
    /\ pc' = "check_connect"
    /\ UNCHANGED << _host, _bin, _checksum, _connectionCheckFunction,
                    _networkSemaphore, sem, connected, probeVars, chunkVars, writeVars >>

(* take the semaphore, connect, print the GET; a refused connect gives the
   semaphore back and returns false *)
CheckConnect ==
    /\ pc = "check_connect"
    /\ CanTake
    /\ \E ok \in BOOLEAN :
         IF ok
         THEN /\ sem' = SemaphoreTake(sem)
              /\ connected' = TRUE
              /\ obs' = [Transport(obs, SemaphoreTake(sem)) EXCEPT
                                    !.manifestGets = @ + 1,
                                    !.getPath = GetPath(obs.useURL)]
              /\ pc' = "check_wait"
              /\ UNCHANGED ret
         ELSE /\ sem' = SemaphoreGive(SemaphoreTake(sem))
              /\ connected' = FALSE
              /\ ReturnCheck("false", "check_connect_failed",
                             Transport(obs, SemaphoreTake(sem)))
    /\ UNCHANGED << objVars, op, probeVars, chunkVars, writeVars >>

(* no byte within CLIENT_TIMEOUT_MS: stop, give, return false *)
CheckTimeout ==
    /\ pc = "check_wait"
    /\ connected' = FALSE
    /\ sem' = SemaphoreGive(sem)
    /\ ReturnCheck("false", "check_timeout", Transport(obs, sem))
    /\ UNCHANGED << objVars, op, probeVars, chunkVars, writeVars >>

(* read the headers; reject a declared length above 256; read the body,
   stop, give, parse, store the descriptor, compare type and version *)
CheckExchange ==
    /\ pc = "check_wait"
    /\ connected' = FALSE
    /\ sem' = SemaphoreGive(sem)
    /\ \E resp \in ManifestResponses : \E n \in Bursts(resp) :
         LET st == CheckHeaders(SubSeq(resp, 1, n), 1, CheckParseInit)
             o1 == [Transport(obs, sem) EXCEPT !.response = st]
         IN
         IF CheckOversize(st.contentLength)
         THEN /\ ReturnCheck("false", "check_oversize", o1)
              /\ UNCHANGED << _host, _port, _bin, _checksum >>
         ELSE IF CheckAccepted(st.contentLength, st.isValidContentType)
         THEN \E parseOk \in BOOLEAN :
                LET o2 == [o1 EXCEPT !.bufRead = st.contentLength,
                                     !.headerAsPayload =
                                         PayloadBeforeEnd(st.ended, st.stopped,
                                                          st.contentLength),
                                     !.parsed = IF parseOk THEN "ok" ELSE "failed"]
                IN
                IF ~parseOk
                THEN /\ ReturnCheck("false", "parse_failed", o2)
                     /\ UNCHANGED << _host, _port, _bin, _checksum >>
                ELSE \E m \in Manifests : \E fwVersion \in FirwmareVersionValues :
                       /\ _port' = m.port
                       /\ _host' = m.host
                       /\ _bin' = m.bin
                       /\ _checksum' = m.checksum
                       /\ IF UpdateAvailable(m.type, m.version,
                                             FirwmareTypeMember, fwVersion)
                          THEN ReturnCheck("true", "update_available",
                                           [o2 EXCEPT !.manifest = m, !.compared = TRUE])
                          ELSE ReturnCheck("false", "no_update",
                                           [o2 EXCEPT !.manifest = m, !.compared = TRUE])
         ELSE /\ ReturnCheck("false", "check_rejected", o1)
              /\ UNCHANGED << _host, _port, _bin, _checksum >>
    /\ UNCHANGED << _connectionCheckFunction, _networkSemaphore, op,
                    probeVars, chunkVars, writeVars >>

(***************************************************************************)
(* Another user of the link: a task of the application that shares the     *)
(* semaphore handed to the constructor takes it when it is free and gives  *)
(* it back after its own exchange                                          *)
(***************************************************************************)
OtherTake ==
    /\ _networkSemaphore
    /\ sem = "free"
    /\ sem' = "other"
    /\ UNCHANGED << objVars, connected, pc, op, ret, probeVars, chunkVars, writeVars, obs >>

OtherGive ==
    /\ sem = "other"
    /\ sem' = "free"
    /\ UNCHANGED << objVars, connected, pc, op, ret, probeVars, chunkVars, writeVars, obs >>

Next ==
    \/ ExecOTA \/ ForceUpdate
    \/ ProbeConnect \/ ProbeTimeout \/ ProbeRead
    \/ SinkBegin
    \/ ChunkLinkDown \/ ChunkReconnect \/ ChunkRequest \/ ChunkTimeout
    \/ ChunkExchange \/ Backoff \/ ChunkDone
    \/ WholeConnect \/ WholeTimeout \/ WholeStream
    \/ Finalize
    \/ ExecHTTPcheck \/ CheckConnect \/ CheckTimeout \/ CheckExchange
    \/ OtherTake \/ OtherGive

Spec == Init /\ [][Next]_vars

(***************************************************************************)
(* The chunked loop on its own, from its entry to finalize, for short      *)
(* files: the number of ranged GETs is not limited (their count stays at   *)
(* MaxGets once reached), so that a session is followed through any number *)
(* of retries                                                              *)
(***************************************************************************)
LiveLengths == 1 .. MaxLiveLen

CountGet(n) == IF n < MaxGets THEN n + 1 ELSE n

(* the state at the entry of the while loop: the probe gave the length, the
   binary type and Accept-Ranges: bytes, Update.begin accepted *)
LiveInit ==
    /\ _host = "fw.example" /\ _port = 8000 /\ _bin = "/fw.bin" /\ _checksum = ""
    /\ _connectionCheckFunction \in BOOLEAN
    /\ _networkSemaphore \in BOOLEAN
    /\ sem = "free"
    /\ connected = FALSE
    /\ pc = "chunk_loop" /\ op = "execOTA" /\ ret = "none"
    /\ contentLength \in LiveLengths
    /\ isValidContentType = TRUE /\ Accept_Ranges_bytes = TRUE
    /\ total_written_bytes = 0 /\ last_written_bytes = 0
    /\ chunk_first_byte = 0
    /\ chunk_last_byte = DOWNLOAD_CHUNK_SIZE - 1
    /\ remainig_bytes = contentLength
    /\ should_close_connection = FALSE
    /\ bytes_to_read = 0 /\ readed_bytes = 0
    /\ obs = [ObsInit EXCEPT !.heads = 1, !.begin = "ok",
                             !.probeTarget = [host |-> _host, port |-> _port,
                                              bin |-> _bin, checksum |-> _checksum]]

LiveChunkRequest == ChunkRequestCounted(CountGet(obs.rangedGets))

LiveNext ==
    \/ ChunkLinkDown \/ ChunkReconnect \/ LiveChunkRequest \/ ChunkTimeout
    \/ ChunkExchange \/ Backoff \/ ChunkDone
    \/ OtherTake \/ OtherGive

(* the sleeps end and the loop condition is evaluated (the engine runs); the
   other user of the link gives the semaphore back, and a given semaphore
   goes to the engine that waits for it in xSemaphoreTake; from some turn on
   the probe reports the link up; the connection is alive when the request
   is due, a connect succeeds, a ranged request is answered with 206 and
   bytes of which the sink takes at least one: each of these happens again
   and again *)
LiveFairness ==
    /\ WF_vars(Backoff)
    /\ WF_vars(ChunkDone)
    /\ WF_vars(ChunkTimeout \/ ChunkExchange)
    /\ WF_vars(OtherGive)
    /\ <>[][~ChunkLinkDown]_vars
    /\ SF_vars(LiveChunkRequest)
    /\ SF_vars(ChunkReconnect /\ connected')
    /\ SF_vars(ChunkExchange /\ last_written_bytes' # 0)

LiveSpec == LiveInit /\ [][LiveNext]_vars /\ LiveFairness

(***************************************************************************)
(* Properties                                                              *)
(***************************************************************************)
OtaOps == {"execOTA", "forceUpdate"}

ChunkedPcs == {"chunk_loop", "chunk_wait", "link_backoff", "backoff", "yield"}

(* a download session that chose the chunked transfer *)
ChunkedSession == op \in OtaOps /\ obs.begin = "ok" /\ Accept_Ranges_bytes

(* a download session that chose the whole-file transfer *)
WholeSession == op \in OtaOps /\ obs.begin = "ok" /\ ~Accept_Ranges_bytes

(* the transfer of the session is over *)
TransferLeft == pc \in {"finalize", "idle", "restarted"}

Min(a, b) == IF a < b THEN a ELSE b

CeilDiv(a, b) == (a + b - 1) \div b

(* C1: whenever a ranged GET has been issued, its first byte is the number
   of bytes the sink has acknowledged so far, and first byte plus remaining
   bytes is the content length: no acknowledged range is asked again and no
   gap is left, whatever failures, short reads and short writes came before *)
C1_RangedGetStartsAtAcknowledged ==
    (pc = "chunk_wait") =>
        /\ obs.getFirst = total_written_bytes
        /\ obs.getFirst = chunk_first_byte
        /\ chunk_first_byte + remainig_bytes = contentLength

(* C1 witness: a ranged GET issued after a reconnect, a short read or write
   and some acknowledged bytes *)
C1_Witness ==
    /\ pc = "chunk_wait"
    /\ obs.shortIo
    /\ obs.bodyConnects >= 2
    /\ obs.rangedGets >= 2
    /\ total_written_bytes > 0

(* C2: in every step of a chunked session total_written_bytes does not
   decrease and stays at most contentLength, and the unsigned remaining
   count does not grow (it never underflows) *)
C2_TotalMonotoneAndBounded ==
    [][ (ChunkedSession /\ pc \in ChunkedPcs) =>
            /\ UintLeq(total_written_bytes, total_written_bytes')
            /\ UintLeq(total_written_bytes', contentLength')
            /\ UintLeq(remainig_bytes', remainig_bytes)
            /\ total_written_bytes' + remainig_bytes' = contentLength' ]_vars

(* C2 witness: an exchange with a short read and a short write after some
   bytes had been written *)
C2_Witness ==
    /\ pc = "yield"
    /\ readed_bytes < bytes_to_read
    /\ last_written_bytes < readed_bytes
    /\ total_written_bytes > 0

(* C3: when every requested chunk was delivered and written in full, the
   k-th ranged GET asks for [k*B, min((k+1)*B, contentLength) - 1], and when
   the transfer is over exactly ceil(contentLength / B) of them were issued
   and contentLength bytes were written *)
C3_ChunkPlan ==
    (ChunkedSession /\ obs.allFull /\ contentLength > 0) =>
        /\ obs.rangedGets >= 1 =>
             /\ obs.getFirst = (obs.rangedGets - 1) * DOWNLOAD_CHUNK_SIZE
             /\ obs.getLast =
                  Min(obs.rangedGets * DOWNLOAD_CHUNK_SIZE, contentLength) - 1
        /\ TransferLeft =>
             /\ obs.rangedGets = CeilDiv(contentLength, DOWNLOAD_CHUNK_SIZE)
             /\ obs.rangedGets = NumChunks(contentLength)
             /\ total_written_bytes = contentLength

(* C3 witness: 40000 bytes fetched in full by three ranged GETs, the last
   one for [32760, 39999] *)
C3_Witness ==
    /\ ChunkedSession /\ obs.allFull /\ TransferLeft
    /\ contentLength = 40000
    /\ obs.rangedGets = 3
    /\ obs.getFirst = 32760 /\ obs.getLast = 39999

(* C4: when Update.begin refuses the session, execOTA has returned false,
   no GET (ranged or whole-file) was issued and no connection was opened
   after the probe *)
C4_SinkRefusalEndsSession ==
    (op \in OtaOps /\ obs.begin = "refused") =>
        /\ pc = "idle" /\ ret = "false"
        /\ obs.rangedGets = 0 /\ obs.wholeGets = 0
        /\ obs.bodyConnects = 0
        /\ ~connected
        /\ ~obs.wrote /\ obs.finalize = "none"

(* C4 witness: a session the sink refused *)
C4_Witness ==
    op \in OtaOps /\ obs.begin = "refused" /\ obs.outcome = "sink_refused"

(* C5: a restart is requested only after Update.end succeeded and
   Update.isFinished held; a session that returned to the caller (probe
   failure, sink refusal, whole-file connect failure or timeout, finalize
   failure, not finished) requested none *)
C5_RestartOnlyWhenComplete ==
    /\ obs.restart => (obs.finalize = "ok" /\ obs.finished = "yes")
    /\ obs.restart <=> pc = "restarted"
    /\ (obs.outcome \in {"probe_connect_failed", "probe_timeout", "probe_rejected",
                         "sink_refused", "whole_connect_failed", "whole_timeout",
                         "finalize_failed", "not_finished"}) => ~obs.restart

(* C5 witness: a restart was requested *)
C5_Witness == obs.restart /\ obs.finalize = "ok" /\ obs.finished = "yes"

(* C6: a whole-file session makes at most one connect for the body and
   prints at most one GET, none of them ranged; once the GET is out exactly
   one of each was made; a refused connect or a first-byte timeout returns
   false with that single attempt *)
C6_WholeFileSingleAttempt ==
    WholeSession =>
        /\ obs.rangedGets = 0
        /\ obs.bodyConnects <= 1 /\ obs.wholeGets <= 1
        /\ (pc = "whole_wait" \/ (TransferLeft /\ obs.wrote)) =>
              (obs.bodyConnects = 1 /\ obs.wholeGets = 1)
        /\ obs.outcome \in {"whole_connect_failed", "whole_timeout"} =>
              (pc = "idle" /\ ret = "false" /\ obs.bodyConnects = 1 /\ ~obs.wrote)
        /\ obs.outcome = "whole_connect_failed" => obs.wholeGets = 0

(* C6 witness: a whole-file session ended by a refused connect *)
C6_Witness == WholeSession /\ obs.outcome = "whole_connect_failed"

(* the manifest exchange succeeded: status 200, application/json, declared
   length in 1..256, parse ok *)
ManifestExchangeOk ==
    /\ obs.response.gotHTTPStatus
    /\ obs.response.isValidContentType
    /\ obs.response.contentLength >= 1
    /\ obs.response.contentLength <= JSON_BUFFER_SIZE
    /\ obs.parsed = "ok"

(* C7: execHTTPcheck returns true exactly when the manifest exchange
   succeeded and the manifest's type is the running firmware's type and its
   version is greater than the running version *)
C7_UpdateIffNewerSameType ==
    (op = "execHTTPcheck" /\ pc = "idle") =>
        ( ret = "true" <=>
            /\ ManifestExchangeOk
            /\ obs.manifest.type = ConstructorArgs.firwmareType
            /\ obs.manifest.version > ConstructorArgs.firwmareVersion )

(* C8: when the declared Content-Length is above 256, execHTTPcheck has
   returned false without asking for any body byte, the connection is closed
   and the semaphore is not held *)
C8_OversizeManifestRejected ==
    (op = "execHTTPcheck" /\ obs.response.contentLength > JSON_BUFFER_SIZE) =>
        /\ pc = "idle" /\ ret = "false"
        /\ obs.bufRead = 0 /\ obs.parsed = "none"
        /\ ~connected
        /\ sem # "engine"

(* C8 witness: a manifest of declared length 257 was rejected while a
   semaphore is in use *)
C8_Witness ==
    /\ op = "execHTTPcheck" /\ obs.outcome = "check_oversize"
    /\ obs.response.contentLength = JSON_BUFFER_SIZE + 1
    /\ _networkSemaphore

(* C9: forceUpdate stores its four arguments as the descriptor and runs a
   download session with them: the probe goes to that host, port and path,
   no manifest GET is made and no type or version is compared *)
C9_ForceUpdateBypassesCheck ==
    (op = "forceUpdate") =>
        /\ [host |-> _host, port |-> _port, bin |-> _bin, checksum |-> _checksum]
              = obs.forced
        /\ obs.manifestGets = 0 /\ ~obs.compared
        /\ pc \notin {"check_connect", "check_wait"}
        /\ obs.heads = 1 => obs.probeTarget = obs.forced
        /\ pc = "idle" => obs.outcome # "none"

(* C9 witness: the probe of a forced update is out *)
C9_Witness ==
    /\ op = "forceUpdate" /\ obs.heads = 1
    /\ obs.forced \in ForceDescriptors
    /\ obs.probeTarget.host = "force.example"

(* C10: once a ranged response carried a status other than 206, no further
   ranged GET is issued *)
C10_Non206EndsSession ==
    obs.rejected => obs.getsAfterReject = 0

(* the cursor, the remaining count and the written total of the chunked loop *)
cursorVars == << chunk_first_byte, remainig_bytes, total_written_bytes >>

(* C11: no step of the chunked loop returns to the caller; a first-byte
   timeout closes the connection and sleeps, a refused reconnect sleeps, a
   dropped connection is reopened, each with the cursor, the remaining count
   and the written total unchanged; after the sleep the loop goes on *)
C11_ConnectionFailuresRetried ==
    [][ (ChunkedSession /\ pc \in ChunkedPcs) =>
            /\ ret' = "none"
            /\ pc' \in ChunkedPcs \cup {"finalize"}
            /\ (pc = "chunk_wait" /\ pc' \notin {"chunk_wait", "yield"}) =>
                  (pc' = "backoff" /\ ~connected' /\ UNCHANGED cursorVars)
            /\ (pc = "chunk_loop" /\ pc' \in {"chunk_loop", "backoff"}) =>
                  (UNCHANGED cursorVars /\ (pc' = "backoff" => ~connected'))
            /\ (pc = "backoff") =>
                  (pc' \in {"backoff", "chunk_loop"} /\ UNCHANGED cursorVars) ]_vars

(* C11 witness: a chunked session that met a first-byte timeout and had to
   reconnect, and yet delivered the whole file with no short read or write *)
C11_Witness ==
    /\ ChunkedSession /\ pc = "finalize"
    /\ ~obs.allFull /\ ~obs.shortIo
    /\ obs.bodyConnects >= 2
    /\ contentLength > 0 /\ total_written_bytes = contentLength

(* positions at which a request is out and its answer is awaited or read *)
ExchangePcs == {"probe_wait", "chunk_wait", "whole_wait", "check_wait"}

(* C12: whenever execOTA or execHTTPcheck has returned (or asked for the
   restart), and at every backoff sleep and inter-chunk yield of the chunked
   loop, the engine does not hold the network semaphore *)
C12_GuardReleasedOnExit ==
    (pc \in {"idle", "restarted", "link_backoff", "backoff", "yield"}) =>
        sem # "engine"

(* C12 witness: with a semaphore configured, another user of the link holds
   it during the yield that follows a chunk exchange *)
C12_Witness ==
    /\ _networkSemaphore
    /\ pc = "yield" /\ total_written_bytes > 0
    /\ sem = "other"

(* C13: no transport call of the probe, of the whole-file transfer, of a
   chunk exchange or of the manifest check is made without the semaphore
   taken by the engine, and while a request is out the engine holds it *)
C13_TransportUnderGuard ==
    /\ ~obs.ioUnguarded
    /\ (_networkSemaphore /\ pc \in ExchangePcs) => sem = "engine"

(* C13 witness: with a semaphore configured, the GET for the whole file is
   out and the engine holds the semaphore *)
C13_Witness ==
    /\ _networkSemaphore
    /\ pc = "whole_wait" /\ obs.wholeGets = 1
    /\ sem = "engine"

(* C14: when execOTA has returned (here from a session whose probe gave a
   positive length), the client was stopped after its last successful
   connect *)
C14_ClosedOnReturn ==
    (op \in OtaOps /\ pc = "idle" /\ contentLength > 0) => ~connected

(* C15: when execOTA returns after Update.end failed, or after
   Update.isFinished did not hold (here in a session whose probe gave a
   positive length), the value the caller receives is false *)
C15_FailureReported ==
    (op \in OtaOps /\ pc = "idle" /\ contentLength > 0
        /\ obs.outcome \in {"finalize_failed", "not_finished"}) => ret = "false"

(* the stored descriptor *)
Descriptor == [host |-> _host, port |-> _port, bin |-> _bin, checksum |-> _checksum]

(* C16: when execHTTPcheck was entered with a descriptor stored and has
   returned false (an error or no update), the stored host, port, path and
   checksum are the ones it was entered with *)
C16_DescriptorKeptUnlessUpdate ==
    (op = "execHTTPcheck" /\ pc = "idle" /\ ret = "false"
        /\ obs.entry.host # "") =>
        Descriptor = obs.entry

(* the probe of the session is over *)
ProbeOver == pc \notin {"probe_connect", "probe_wait"}

(* C17: when the probe's connect was refused, when no byte came in time,
   when the status was not 200, when the length is zero or was not given, or
   when the content type is not application/octet-stream, execOTA has
   returned false and the session made no call to Update.begin, setMD5,
   write, writeStream or end, opened no further connection and printed no
   GET *)
C17_ProbeFailureBeforeSink ==
    (op \in OtaOps /\ ProbeOver
        /\ (\/ obs.outcome \in {"probe_connect_failed", "probe_timeout"}
            \/ obs.probeNon200
            \/ contentLength = 0
            \/ ~isValidContentType)) =>
        /\ pc = "idle" /\ ret = "false"
        /\ obs.begin = "none" /\ ~obs.md5 /\ ~obs.wrote /\ obs.finalize = "none"
        /\ obs.bodyConnects = 0 /\ obs.rangedGets = 0 /\ obs.wholeGets = 0
        /\ ~obs.restart

(* C17 witness: a probe answered 200 with a length of 5000 and a content
   type that is not the binary one was rejected *)
C17_Witness ==
    /\ op \in OtaOps /\ obs.outcome = "probe_rejected"
    /\ obs.heads = 1 /\ ~obs.probeNon200
    /\ contentLength = 5000 /\ ~isValidContentType

(* C18: in a whole-file session whose probe gave a positive length, when
   the response to the GET carried a status other than 200 (its headers
   read to the empty line), no byte of it was streamed into the sink *)
C18_WholeStatusChecked ==
    (WholeSession /\ contentLength > 0 /\ ~obs.headerAsPayload
        /\ obs.wholeStatus \notin {0, HTTP_OK}) =>
        total_written_bytes = 0

(* C19: in a download session whose probe gave a positive length, no
   payload read (readBytes of a chunk, writeStream of the whole file) takes
   bytes before the empty line that ends the headers was read *)
C19_PayloadAfterHeaders ==
    (op \in OtaOps /\ contentLength > 0) => ~obs.headerAsPayload

(* C20: a turn of the chunked loop in which the probe reports the link down
   only goes to the 5 s sleep: it is taken only when a probe is configured,
   the engine does not take the semaphore, the connection, the cursor, the
   span, the remaining count and the written total stay as they are, no
   connect is made and no request printed; the sleep is followed by the
   next poll *)
C20_LinkDownWaits ==
    [][ /\ (pc' = "link_backoff" /\ pc # "link_backoff") =>
              /\ pc = "chunk_loop"
              /\ _connectionCheckFunction
              /\ sem' # "engine"
              /\ UNCHANGED << connected, cursorVars, chunk_last_byte, ret, obs >>
        /\ (pc = "link_backoff") =>
              /\ pc' \in {"link_backoff", "chunk_loop"}
              /\ sem' # "engine"
              /\ UNCHANGED << connected, cursorVars, chunk_last_byte, ret, obs >> ]_vars

(* C20 witness: the link is reported down in the middle of a transfer, with
   bytes written and the connection still open *)
C20_Witness ==
    /\ pc = "link_backoff"
    /\ _connectionCheckFunction
    /\ connected
    /\ total_written_bytes > 0 /\ remainig_bytes # 0

(* C21: in a chunked session whose probe gave a positive length, whose
   ranged responses all carried 206 and had their headers read to the empty
   line, a ranged GET issued after an exchange that came up short (fewer
   bytes read than asked, all of them taken by the sink) starts at the
   cursor and asks for min(DOWNLOAD_CHUNK_SIZE, remaining bytes) bytes *)
C21_SpanRecomputedAfterShortRead ==
    (ChunkedSession /\ pc = "chunk_wait" /\ contentLength > 0
        /\ ~obs.rejected /\ ~obs.headerAsPayload /\ obs.rangedGets >= 2
        /\ readed_bytes # bytes_to_read /\ last_written_bytes = readed_bytes) =>
        /\ obs.getFirst = chunk_first_byte
        /\ obs.getLast - obs.getFirst + 1 = Min(DOWNLOAD_CHUNK_SIZE, remainig_bytes)

(* C22: when the link is reported up, connects succeed and ranged requests
   are answered with 206 and at least one byte that the sink takes, each
   again and again, a chunked session reaches finalize with
   total_written_bytes equal to contentLength and no byte left *)
C22_ChunkedTransferCompletes ==
    <>(pc = "finalize" /\ total_written_bytes = contentLength /\ remainig_bytes = 0)

(* C22 witness: a session of three bytes reached finalize after a short
   read, a first-byte timeout and a reconnect *)
C22_Witness ==
    /\ pc = "finalize"
    /\ contentLength = MaxLiveLen /\ total_written_bytes = contentLength
    /\ obs.shortIo /\ obs.bodyConnects >= 2
    /\ obs.rangedGets >= 3

WholePcs == {"whole_connect", "whole_wait"}

(* C23: no session prints both ranged and whole-file GETs; and in a session
   whose probe headers were read to the empty line and whose sink accepted,
   the transfer is the chunked one (ranged GETs only, never at a position of
   the whole-file branch) when the probe response carried Accept-Ranges:
   bytes, and the whole-file one (no ranged GET, never at a position of the
   chunked loop) when it did not *)
C23_StrategyFromProbe ==
    /\ ~(obs.rangedGets > 0 /\ obs.wholeGets > 0)
    /\ (op \in OtaOps /\ obs.probeEnded /\ obs.begin = "ok") =>
          IF obs.probeRanges
          THEN /\ Accept_Ranges_bytes
               /\ obs.wholeGets = 0 /\ pc \notin WholePcs
               /\ pc \in ChunkedPcs \cup {"finalize", "idle", "restarted"}
          ELSE /\ ~Accept_Ranges_bytes
               /\ obs.rangedGets = 0 /\ pc \notin ChunkedPcs
               /\ pc \in WholePcs \cup {"finalize", "idle", "restarted"}

(* C23 witness: a probe that carried Accept-Ranges: bytes was followed by
   two ranged GETs and no whole-file GET *)
C23_Witness ==
    /\ op \in OtaOps /\ obs.probeEnded /\ obs.probeRanges
    /\ obs.rangedGets = 2 /\ obs.wholeGets = 0
    /\ total_written_bytes > 0


(* C24: in a session, chunked or whole-file, the digest has been registered
   with the sink exactly when Update.begin accepted and the descriptor's
   checksum has text, so that it is registered before any byte is written
   for such a checksum and never for an empty one; and the step that
   registers it is the step in which the sink accepts, with nothing written *)
C24_DigestBeforeFirstWrite ==
    [][ /\ op' \in OtaOps =>
            /\ obs'.md5 <=> (obs'.begin = "ok" /\ _checksum' # "")
            /\ (obs'.wrote /\ _checksum' # "") => obs'.md5
            /\ (_checksum' = "") => ~obs'.md5
        /\ (~obs.md5 /\ obs'.md5) =>
            /\ pc = "begin" /\ obs.begin = "none" /\ obs'.begin = "ok"
            /\ ~obs.wrote /\ ~obs'.wrote /\ total_written_bytes' = 0
      ]_vars

(* C24 witness: a forced session with a checksum wrote bytes to the sink in
   the whole-file branch with the digest registered *)
C24_Witness ==
    /\ op = "forceUpdate" /\ _checksum # ""
    /\ obs.md5 /\ obs.wrote /\ obs.wholeGets = 1 /\ total_written_bytes > 0

(* the same case in the chunked loop *)
C24_WitnessChunked ==
    /\ op = "forceUpdate" /\ _checksum # ""
    /\ obs.md5 /\ obs.wrote /\ obs.rangedGets >= 1 /\ total_written_bytes > 0


(* C25: the path printed in the GET of execHTTPcheck is the configured
   resource path followed by "?id=" and the device identifier when
   useDeviceID is true, and the configured resource path alone when it is
   false *)
C25_DevicePathRequested ==
    (op = "execHTTPcheck" /\ obs.manifestGets > 0) =>
        obs.getPath = IF obs.useDeviceID
                      THEN checkRESOURCE \o "?id=" \o DeviceID
                      ELSE checkRESOURCE


(* C26: in the first manifest check of an object constructed with (T, V),
   with no descriptor stored or forced before it, a valid manifest of type T
   whose response was read to the end of its headers yields true when its version is V + 1 and false when its version is V *)
C26_IdentityFromConstructor ==
    ( /\ op = "execHTTPcheck" /\ pc = "idle"
      /\ obs.entry.port \in IndeterminatePorts
      /\ ManifestExchangeOk /\ obs.response.ended
      /\ obs.manifest.type = ConstructorArgs.firwmareType ) =>
        /\ (obs.manifest.version = ConstructorArgs.firwmareVersion + 1) => ret = "true"
        /\ (obs.manifest.version = ConstructorArgs.firwmareVersion) => ret = "false"


(* C27: the engine gives the semaphore only while it holds it: no step of
   execOTA or execHTTPcheck (a step that moves the engine's position)
   changes the semaphore while another user of the link holds it, and a
   step of the engine that leaves the semaphore free starts with the
   semaphore held by the engine or takes it within the step *)
C27_GivesOnlyWhenHeld ==
    [][ (_networkSemaphore /\ pc' # pc /\ contentLength' > 0) =>
            /\ (sem = "other") => sem' = "other"
            /\ (pc = "chunk_loop" /\ pc' = "finalize") => sem = "engine"
      ]_vars


(* C28: whatever the Content-Length of the manifest response, the number of
   bytes execHTTPcheck asks the transport to read into JSONMessage[256] is 0
   (nothing read) or lies within 1 .. 256 *)
C28_ManifestReadFitsBuffer ==
    (op = "execHTTPcheck" /\ obs.response.ended) =>
        \/ obs.bufRead = 0
        \/ (1 <= obs.bufRead /\ obs.bufRead <= JSON_BUFFER_SIZE)

=============================================================================
